---- MODULE Spec2Model ----
(***************************************************************************)
(* Background execution and progress monitoring of pyro/gui.py:            *)
(* SolverThread (the worker loop and its progress estimator) and           *)
(* SolverWidget (run / pause / stop and the timer-driven updateStatus).    *)
(*                                                                         *)
(* Numbers are fixed point in thousandths (1000 stands for 1.0), the scale *)
(* updateStatus uses for the progress bar.  Every quotient rounds away     *)
(* from zero, so comparisons against 0 and against 1.0 are exact.          *)
(***************************************************************************)
EXTENDS Integers, FiniteSets, Sequences, TLC

\* ---------------------------------------------------------------- bounds
MaxWorkers == 2      \* SolverThread objects created by one widget
MaxCalls == 3        \* button presses (run / pause / stop) in one behaviour

\* ------------------------------------------------- configuration and data
One == 1000          \* 1.0 in thousandths
Frac0 == 150         \* self.frac0 = 0.15
Every == 5           \* updateProgress runs when i % 5 == 0
Sentinel == 1000000000   \* 1e9: errors at or above it are "not yet defined"
ErrHuge == 2000000000    \* a saturated error value at or above the sentinel
TEnd == 11           \* TC.tEnd, in solver time units
SteadyPeriod == 1    \* TC.steadyPeriod, in solver time units
Tolerance == 10      \* TC.tolerance = 0.01
NaN == -1            \* the float nan (ordered with nothing)
NoThread == 0        \* self.solverThread = None / no lock object

Workers == 1..MaxWorkers
ErrVals == {ErrHuge, 100000, 100, 5}   \* 1e9+, 100.0, 0.1, 0.005

VARIABLES
    measurement,   \* conf.terminationCondition.measurement is not None
    solver,        \* widget.solver: "none", "raw" (constructed), "ready" (initialized)
    time,          \* solver.timeVector[-1]
    err,           \* solver.terminationCondition
    progress,      \* solver.progress
    solverLock,    \* solver.lock: the id of the lock object installed last
    nWorkers,      \* SolverThread objects created so far
    pc,            \* per worker: "new", "head", "lock", "step", "upd", "fin", "dead"
    stopFlag,      \* per worker: self._stop
    iter,          \* per worker: i
    done,          \* per worker: done
    stage,         \* per worker: self.stage
    refCond,       \* per worker: self.refCond
    wlock,         \* per worker: the lock object it holds (NoThread: none)
    solverThread,  \* widget.solverThread (NoThread: None)
    timerActive,   \* widget.updateTimer is running
    guiPc,         \* the GUI thread: "idle", "wait" (blocked on the lock), "copy"
    monLock,       \* the lock object updateStatus holds (NoThread: none)
    bar,           \* progressBar value / 1000: the progress last published
    calls,         \* history: button presses so far
    lastCall,      \* history: the button pressed by the last step ("none": a thread step)
    exitCause,     \* history, per worker: "none", "done", "stop", "failed"
    stepsAfterStop,\* history, per worker: step() calls begun with _stop set by stop()
    stopPressed,   \* history: the Stop button was pressed
    nValidate,     \* history: conf.validate() calls
    nConstruct,    \* history: pyro.FlameSolver(conf) calls
    nInit,         \* history: solver.initialize() calls
    access         \* history: the access to a shared solver field made by the last step

solverVars == <<measurement, solver, time, err, progress, solverLock>>
workerVars == <<nWorkers, pc, stopFlag, iter, done, stage, refCond, wlock>>
guiVars == <<solverThread, timerActive, guiPc, monLock, bar>>
histVars == <<calls, lastCall, exitCause, stepsAfterStop, stopPressed,
              nValidate, nConstruct, nInit, access>>
\* the history a thread step leaves alone (it sets lastCall and access)
counts == <<calls, stopPressed, nValidate, nConstruct, nInit>>
vars == <<solverVars, workerVars, guiVars, histVars>>

\* ------------------------------------------------------ float arithmetic

\* n / d for d > 0, rounded away from zero
RoundAway(n, d) ==
    IF n >= 0 THEN (n + d - 1) \div d ELSE 0 - ((d - n - 1) \div d)

\* a / b in thousandths, any signs, b # 0
QuotM(a, b) ==
    IF b > 0 THEN RoundAway(a * One, b) ELSE RoundAway((0 - a) * One, 0 - b)

RECURSIVE Log10Floor(_)
Log10Floor(x) == IF x < 10 THEN 0 ELSE 1 + Log10Floor(x \div 10)

RECURSIVE Pow10(_)
Pow10(k) == IF k = 0 THEN 1 ELSE 10 * Pow10(k - 1)

\* np.log10 of x > 0 (x and the result in thousandths): exact at the powers
\* of ten, interpolated between them
Log10M(x) ==
    LET k == Log10Floor(x)
        p == Pow10(k)
        f == IF p >= One
             THEN RoundAway(RoundAway(x - p, p \div One), 9)
             ELSE RoundAway((x - p) * One, 9 * p)
    IN  (k - 3) * One + f

\* a ** 0.5 for a >= 0, in thousandths
SqrtM(a) ==
    CHOOSE s \in 0..(a + One) : s * s <= a * One /\ (s + 1) * (s + 1) > a * One

\* Python's max(a, b) and min(a, b): the first argument unless the second
\* compares greater (less); every comparison with nan is False
PyMax(a, b) == IF a # NaN /\ b # NaN /\ b > a THEN b ELSE a
PyMin(a, b) == IF a # NaN /\ b # NaN /\ b < a THEN b ELSE a

\* TC.tolerance + (errNow - TC.tolerance) / self.refCond
LogArg(errNow, ref) ==
    IF errNow >= Sentinel THEN Sentinel
    ELSE Tolerance + QuotM(errNow - Tolerance, ref)

\* frac0 + (1 - frac0) * A ** 0.5 with
\* A = log10(tolerance + (errNow - tolerance) / refCond) / log10(tolerance);
\* log10 of a negative number and the square root of a negative A are nan,
\* log10(0) is -inf, which makes A and the sum +inf
ConvergingRaw(errNow, ref) ==
    LET x == LogArg(errNow, ref)
    IN  IF x < 0 THEN NaN
        ELSE IF x = 0 THEN ErrHuge
        ELSE LET A == QuotM(Log10M(x), Log10M(Tolerance))
             IN  IF A < 0 THEN NaN
                 ELSE Frac0 + ((One - Frac0) * SqrtM(A)) \div One

\* ------------------------------------------------------------ the solver

\* solver.step(): the time series grows and the termination error is
\* whatever the solver measures; Done at the end time or, with a
\* measurement, once the error is within tolerance after the steady period
StepDone(t, e) ==
    \/ t >= TEnd
    \/ measurement /\ t >= SteadyPeriod /\ e < Tolerance

NoAccess == [actor |-> "none", field |-> "none", locked |-> TRUE]

Alive(w) == pc[w] \notin {"new", "dead"}

LockFree(l) == monLock # l /\ \A w \in Workers : wlock[w] # l

Init ==
    /\ measurement \in BOOLEAN
    /\ solver = "none"
    /\ time = 0
    /\ err = ErrHuge
    /\ progress = 0
    /\ solverLock = NoThread
    /\ nWorkers = 0
    /\ pc = [w \in Workers |-> "new"]
    /\ stopFlag = [w \in Workers |-> FALSE]
    /\ iter = [w \in Workers |-> 0]
    /\ done = [w \in Workers |-> FALSE]
    /\ stage = [w \in Workers |-> 0]
    /\ refCond = [w \in Workers |-> 0]
    /\ wlock = [w \in Workers |-> NoThread]
    /\ solverThread = NoThread
    /\ timerActive = FALSE
    /\ guiPc = "idle"
    /\ monLock = NoThread
    /\ bar = 0
    /\ calls = 0
    /\ lastCall = "none"
    /\ exitCause = [w \in Workers |-> "none"]
    /\ stepsAfterStop = [w \in Workers |-> 0]
    /\ stopPressed = FALSE
    /\ nValidate = 0
    /\ nConstruct = 0
    /\ nInit = 0
    /\ access = NoAccess


\* ------------------------------------------------------- SolverThread

Held(w) == wlock[w] # NoThread /\ wlock[w] = solverLock

\* a worker that takes over the stage and reference error of the one before
SpawnCarry(w) ==
    /\ solverLock' = w
    /\ progress' = 0
    /\ stopFlag' = [stopFlag EXCEPT ![w] = FALSE]
    /\ stage' = [stage EXCEPT ![w] = IF w > 1 THEN stage[w - 1] ELSE 0]
    /\ refCond' = [refCond EXCEPT ![w] = IF w > 1 THEN refCond[w - 1] ELSE 0]
    /\ iter' = [iter EXCEPT ![w] = 0]
    /\ done' = [done EXCEPT ![w] = FALSE]
    /\ pc' = [pc EXCEPT ![w] = "head"]
    /\ nWorkers' = w
    /\ UNCHANGED wlock

\* SolverThread.__init__ and Thread.start(): a new lock object on the
\* solver, progress reset, flag clear, stage 0; run() begins with i = 0
Spawn(w) ==
    /\ solverLock' = w
    /\ progress' = 0
    /\ stopFlag' = [stopFlag EXCEPT ![w] = FALSE]
    /\ stage' = [stage EXCEPT ![w] = 0]
    /\ iter' = [iter EXCEPT ![w] = 0]
    /\ done' = [done EXCEPT ![w] = FALSE]
    /\ pc' = [pc EXCEPT ![w] = "head"]
    /\ nWorkers' = w
    /\ UNCHANGED <<refCond, wlock>>

\* a loop that looks at the stop flag only on every 5th iteration
LoopTestEvery5(w) == ~(stopFlag[w] /\ iter[w] % Every = 0) /\ ~done[w]

\* while not self._stop and not done
LoopTest(w) == ~stopFlag[w] /\ ~done[w]

\* a loop that idles at its head while the flag is set instead of leaving
WHeadSpin(w) ==
    /\ pc[w] = "head"
    /\ IF ~done[w]
       THEN /\ iter' = [iter EXCEPT ![w] = IF stopFlag[w] THEN @ ELSE @ + 1]
            /\ pc' = [pc EXCEPT ![w] = IF stopFlag[w] THEN "head" ELSE "lock"]
            /\ UNCHANGED <<stopFlag, exitCause>>
       ELSE /\ stopFlag' = [stopFlag EXCEPT ![w] = TRUE]
            /\ pc' = [pc EXCEPT ![w] = "dead"]
            /\ exitCause' = [exitCause EXCEPT ![w] = "done"]
            /\ UNCHANGED iter
    /\ lastCall' = "none"
    /\ access' = NoAccess
    /\ UNCHANGED <<solverVars, nWorkers, done, stage, refCond, wlock, guiVars,
                   counts, stepsAfterStop>>

\* the loop head: i += 1 and on into the body, or self._stop = True and exit
WHead(w) ==
    /\ pc[w] = "head"
    /\ IF LoopTest(w)
       THEN /\ iter' = [iter EXCEPT ![w] = @ + 1]
            /\ pc' = [pc EXCEPT ![w] = "lock"]
            /\ UNCHANGED <<stopFlag, exitCause>>
       ELSE /\ stopFlag' = [stopFlag EXCEPT ![w] = TRUE]
            /\ pc' = [pc EXCEPT ![w] = "dead"]
            /\ exitCause' = [exitCause EXCEPT ![w] = IF done[w] THEN "done" ELSE "stop"]
            /\ UNCHANGED iter
    /\ lastCall' = "none"
    /\ access' = NoAccess
    /\ UNCHANGED <<solverVars, nWorkers, done, stage, refCond, wlock, guiVars,
                   counts, stepsAfterStop>>

\* with self.solver.lock: (entering) - blocks while the lock object is held
WAcquire(w) ==
    /\ pc[w] = "lock"
    /\ LockFree(solverLock)
    /\ wlock' = [wlock EXCEPT ![w] = solverLock]
    /\ pc' = [pc EXCEPT ![w] = "step"]
    /\ stepsAfterStop' = [stepsAfterStop EXCEPT ![w] = IF stopFlag[w] THEN @ + 1 ELSE @]
    /\ lastCall' = "none"
    /\ access' = NoAccess
    /\ UNCHANGED <<solverVars, nWorkers, stopFlag, iter, done, stage, refCond,
                   guiVars, counts, exitCause>>

\* the termination error the next step() may leave: unused without a
\* measurement; with one it is undefined (at or above the sentinel) until it
\* is measured and then approaches the tolerance, so the sequences drawn
\* are the non-increasing ones
NextErrs == IF measurement THEN {e \in ErrVals : e <= err} ELSE {err}

\* done = self.solver.step(), then the with block releases the lock; a
\* StepError propagates out of run(): the with block still releases the
\* lock and the thread ends without reaching self._stop = True
WStep(w) ==
    /\ pc[w] = "step"
    /\ \/ /\ time' = time + 1
          /\ err' \in NextErrs
          /\ done' = [done EXCEPT ![w] = StepDone(time', err')]
          /\ access' = [actor |-> "worker", field |-> "series", locked |-> Held(w)]
          /\ pc' = [pc EXCEPT ![w] = "upd"]
          /\ UNCHANGED exitCause
       \/ /\ pc' = [pc EXCEPT ![w] = "dead"]
          /\ exitCause' = [exitCause EXCEPT ![w] = "failed"]
          /\ access' = NoAccess
          /\ UNCHANGED <<time, err, done>>
    /\ wlock' = [wlock EXCEPT ![w] = NoThread]
    /\ lastCall' = "none"
    /\ UNCHANGED <<measurement, solver, progress, solverLock, nWorkers, stopFlag,
                   iter, stage, refCond, guiVars, counts, stepsAfterStop>>

\* updateProgress that takes a new reference error in every Converging call
UpdateProgressRecapture(w) ==
    /\ access' = [actor |-> "worker", field |-> "progress", locked |-> Held(w)]
    /\ IF ~measurement
       THEN /\ progress' = RoundAway(time * One, TEnd)
            /\ UNCHANGED <<stage, refCond>>
       ELSE IF stage[w] = 0
       THEN /\ progress' = RoundAway(Frac0 * time, SteadyPeriod)
            /\ IF err < Sentinel
               THEN /\ refCond' = [refCond EXCEPT ![w] = err]
                    /\ stage' = [stage EXCEPT ![w] = 1]
               ELSE UNCHANGED <<stage, refCond>>
       ELSE /\ progress' = PyMax(PyMin(ConvergingRaw(err, refCond[w]), One), progress)
            /\ refCond' = [refCond EXCEPT ![w] = err]
            /\ UNCHANGED stage

\* SolverThread.updateProgress
UpdateProgress(w) ==
    /\ access' = [actor |-> "worker", field |-> "progress", locked |-> Held(w)]
    /\ IF ~measurement
       THEN /\ progress' = RoundAway(time * One, TEnd)
            /\ UNCHANGED <<stage, refCond>>
       ELSE IF stage[w] = 0
       THEN /\ progress' = RoundAway(Frac0 * time, SteadyPeriod)
            /\ IF err < Sentinel
               THEN /\ refCond' = [refCond EXCEPT ![w] = err]
                    /\ stage' = [stage EXCEPT ![w] = 1]
               ELSE UNCHANGED <<stage, refCond>>
       ELSE /\ progress' = PyMax(PyMin(ConvergingRaw(err, refCond[w]), One), progress)
            /\ UNCHANGED <<stage, refCond>>

\* updateProgress called after every iteration
WUpdateAlways(w) ==
    /\ pc[w] = "upd"
    /\ UpdateProgress(w)
    /\ pc' = [pc EXCEPT ![w] = "fin"]
    /\ lastCall' = "none"
    /\ UNCHANGED <<measurement, solver, time, err, solverLock, nWorkers, stopFlag,
                   iter, done, wlock, guiVars, counts, exitCause, stepsAfterStop>>

\* time.sleep(1e-4); if not i % 5: self.updateProgress()
WUpdate(w) ==
    /\ pc[w] = "upd"
    /\ IF iter[w] % Every = 0
       THEN UpdateProgress(w)
       ELSE /\ access' = NoAccess
            /\ UNCHANGED <<progress, stage, refCond>>
    /\ pc' = [pc EXCEPT ![w] = "fin"]
    /\ lastCall' = "none"
    /\ UNCHANGED <<measurement, solver, time, err, solverLock, nWorkers, stopFlag,
                   iter, done, wlock, guiVars, counts, exitCause, stepsAfterStop>>

\* the forced write left out
WFinNoForce(w) ==
    /\ pc[w] = "fin"
    /\ access' = NoAccess
    /\ pc' = [pc EXCEPT ![w] = "head"]
    /\ lastCall' = "none"
    /\ UNCHANGED <<solverVars, nWorkers, stopFlag, iter, done, stage, refCond,
                   wlock, guiVars, counts, exitCause, stepsAfterStop>>

\* if done: self.solver.progress = 1.0
WFin(w) ==
    /\ pc[w] = "fin"
    /\ IF done[w]
       THEN /\ progress' = One
            /\ access' = [actor |-> "worker", field |-> "progress", locked |-> Held(w)]
       ELSE /\ access' = NoAccess
            /\ UNCHANGED progress
    /\ pc' = [pc EXCEPT ![w] = "head"]
    /\ lastCall' = "none"
    /\ UNCHANGED <<measurement, solver, time, err, solverLock, nWorkers, stopFlag,
                   iter, done, stage, refCond, wlock, guiVars, counts, exitCause,
                   stepsAfterStop>>

\* SolverThread.stop
ThreadStop(w) == stopFlag' = [stopFlag EXCEPT ![w] = TRUE]

\* ------------------------------------------------------- SolverWidget

Outcomes == {"ok", "validate", "initialize"}

\* run() without the is_alive() guard
RunNoGuard(outcome) ==
    IF solver = "none" /\ outcome = "validate"
    THEN /\ nValidate' = nValidate + 1
         /\ UNCHANGED <<solver, progress, solverLock, workerVars, solverThread,
                         timerActive, nConstruct, nInit>>
    ELSE IF solver = "none" /\ outcome = "initialize"
    THEN /\ solver' = "raw"
         /\ nValidate' = nValidate + 1
         /\ nConstruct' = nConstruct + 1
         /\ nInit' = nInit + 1
         /\ UNCHANGED <<progress, solverLock, workerVars, solverThread, timerActive>>
    ELSE /\ nWorkers < MaxWorkers
         /\ IF solver = "none"
            THEN /\ solver' = "ready"
                 /\ nValidate' = nValidate + 1
                 /\ nConstruct' = nConstruct + 1
                 /\ nInit' = nInit + 1
            ELSE UNCHANGED <<solver, nValidate, nConstruct, nInit>>
         /\ Spawn(nWorkers + 1)
         /\ solverThread' = nWorkers + 1
         /\ timerActive' = TRUE

\* run() that builds a solver for every new worker
RunRebuild(outcome) ==
    IF solverThread # NoThread /\ Alive(solverThread)
    THEN UNCHANGED <<solver, progress, solverLock, workerVars, solverThread,
                     timerActive, nValidate, nConstruct, nInit>>
    ELSE IF outcome = "validate"
    THEN /\ nValidate' = nValidate + 1
         /\ UNCHANGED <<solver, progress, solverLock, workerVars, solverThread,
                         timerActive, nConstruct, nInit>>
    ELSE IF outcome = "initialize"
    THEN /\ solver' = "raw"
         /\ nValidate' = nValidate + 1
         /\ nConstruct' = nConstruct + 1
         /\ nInit' = nInit + 1
         /\ UNCHANGED <<progress, solverLock, workerVars, solverThread, timerActive>>
    ELSE /\ nWorkers < MaxWorkers
         /\ solver' = "ready"
         /\ nValidate' = nValidate + 1
         /\ nConstruct' = nConstruct + 1
         /\ nInit' = nInit + 1
         /\ Spawn(nWorkers + 1)
         /\ solverThread' = nWorkers + 1
         /\ timerActive' = TRUE

\* SolverWidget.run; outcome says which call raises when the solver is built
Run(outcome) ==
    IF solverThread # NoThread /\ Alive(solverThread)
    THEN UNCHANGED <<solver, progress, solverLock, workerVars, solverThread,
                     timerActive, nValidate, nConstruct, nInit>>
    ELSE IF solver = "none" /\ outcome = "validate"
    THEN /\ nValidate' = nValidate + 1
         /\ UNCHANGED <<solver, progress, solverLock, workerVars, solverThread,
                         timerActive, nConstruct, nInit>>
    ELSE IF solver = "none" /\ outcome = "initialize"
    THEN /\ solver' = "raw"
         /\ nValidate' = nValidate + 1
         /\ nConstruct' = nConstruct + 1
         /\ nInit' = nInit + 1
         /\ UNCHANGED <<progress, solverLock, workerVars, solverThread, timerActive>>
    ELSE /\ nWorkers < MaxWorkers
         /\ IF solver = "none"
            THEN /\ solver' = "ready"
                 /\ nValidate' = nValidate + 1
                 /\ nConstruct' = nConstruct + 1
                 /\ nInit' = nInit + 1
            ELSE UNCHANGED <<solver, nValidate, nConstruct, nInit>>
         /\ Spawn(nWorkers + 1)
         /\ solverThread' = nWorkers + 1
         /\ timerActive' = TRUE

\* the Start button
Start ==
    /\ guiPc = "idle"
    /\ calls < MaxCalls
    /\ calls' = calls + 1
    /\ lastCall' = "start"
    /\ access' = NoAccess
    /\ \E outcome \in Outcomes : Run(outcome)
    /\ UNCHANGED <<measurement, time, err, guiPc, monLock, bar, exitCause,
                   stepsAfterStop, stopPressed>>

\* pause() that only ever signals: no Continue half
PauseNoResume ==
    /\ guiPc = "idle"
    /\ calls < MaxCalls
    /\ calls' = calls + 1
    /\ lastCall' = "pause"
    /\ access' = NoAccess
    /\ IF solverThread = NoThread \/ ~Alive(solverThread)
       THEN UNCHANGED <<solver, progress, solverLock, workerVars, solverThread,
                        timerActive, nValidate, nConstruct, nInit>>
       ELSE /\ ThreadStop(solverThread)
            /\ timerActive' = FALSE
            /\ UNCHANGED <<solver, progress, solverLock, nWorkers, pc, iter, done,
                           stage, refCond, wlock, solverThread, nValidate,
                           nConstruct, nInit>>
    /\ UNCHANGED <<measurement, time, err, guiPc, monLock, bar, exitCause,
                   stepsAfterStop, stopPressed>>

\* SolverWidget.pause (the Pause / Continue button)
Pause ==
    /\ guiPc = "idle"
    /\ calls < MaxCalls
    /\ calls' = calls + 1
    /\ lastCall' = "pause"
    /\ access' = NoAccess
    /\ IF solverThread = NoThread
       THEN UNCHANGED <<solver, progress, solverLock, workerVars, solverThread,
                        timerActive, nValidate, nConstruct, nInit>>
       ELSE IF ~Alive(solverThread)
       THEN /\ Run("ok")
            /\ timerActive' = TRUE
       ELSE /\ ThreadStop(solverThread)
            /\ timerActive' = FALSE
            /\ UNCHANGED <<solver, progress, solverLock, nWorkers, pc, iter, done,
                           stage, refCond, wlock, solverThread, nValidate,
                           nConstruct, nInit>>
    /\ UNCHANGED <<measurement, time, err, guiPc, monLock, bar, exitCause,
                   stepsAfterStop, stopPressed>>

\* SolverWidget.stop (the Stop button)
Stop ==
    /\ guiPc = "idle"
    /\ calls < MaxCalls
    /\ calls' = calls + 1
    /\ lastCall' = "stop"
    /\ access' = NoAccess
    /\ stopPressed' = TRUE
    /\ IF solverThread # NoThread
       THEN /\ ThreadStop(solverThread)
            /\ timerActive' = FALSE
       ELSE UNCHANGED <<stopFlag, timerActive>>
    /\ UNCHANGED <<solverVars, nWorkers, pc, iter, done, stage, refCond, wlock,
                   solverThread, guiPc, monLock, bar, exitCause, stepsAfterStop,
                   nValidate, nConstruct, nInit>>

\* updateStatus that never stops the timer
UpdateStatusNoStop ==
    /\ timerActive
    /\ guiPc = "idle"
    /\ IF solver = "none"
       THEN /\ access' = NoAccess
            /\ UNCHANGED <<timerActive, bar, guiPc>>
       ELSE /\ bar' = progress
            /\ access' = [actor |-> "monitor", field |-> "progress",
                          locked |-> monLock # NoThread /\ monLock = solverLock]
            /\ guiPc' = "wait"
            /\ UNCHANGED timerActive
    /\ lastCall' = "none"
    /\ UNCHANGED <<solverVars, workerVars, solverThread, monLock, counts,
                   exitCause, stepsAfterStop>>

\* SolverWidget.updateStatus, up to the with statement: the timer's timeout
UpdateStatus ==
    /\ timerActive
    /\ guiPc = "idle"
    /\ IF solver = "none"
       THEN /\ access' = NoAccess
            /\ UNCHANGED <<timerActive, bar, guiPc>>
       ELSE /\ timerActive' = (timerActive /\ Alive(solverThread))
            /\ bar' = progress
            /\ access' = [actor |-> "monitor", field |-> "progress",
                          locked |-> monLock # NoThread /\ monLock = solverLock]
            /\ guiPc' = "wait"
    /\ lastCall' = "none"
    /\ UNCHANGED <<solverVars, workerVars, solverThread, monLock, counts,
                   exitCause, stepsAfterStop>>

\* with self.solver.lock: (entering) - the GUI thread blocks here
MonAcquire ==
    /\ guiPc = "wait"
    /\ LockFree(solverLock)
    /\ monLock' = solverLock
    /\ guiPc' = "copy"
    /\ lastCall' = "none"
    /\ access' = NoAccess
    /\ UNCHANGED <<solverVars, workerVars, solverThread, timerActive, bar, counts,
                   exitCause, stepsAfterStop>>

\* the three set_data copies, then the with block releases the lock
MonCopy ==
    /\ guiPc = "copy"
    /\ access' = [actor |-> "monitor", field |-> "series",
                  locked |-> monLock # NoThread /\ monLock = solverLock]
    /\ monLock' = NoThread
    /\ guiPc' = "idle"
    /\ lastCall' = "none"
    /\ UNCHANGED <<solverVars, workerVars, solverThread, timerActive, bar, counts,
                   exitCause, stepsAfterStop>>

Next ==
    \/ Start
    \/ Pause
    \/ Stop
    \/ UpdateStatus
    \/ MonAcquire
    \/ MonCopy
    \/ \E w \in Workers : WHead(w)
    \/ \E w \in Workers : WAcquire(w)
    \/ \E w \in Workers : WStep(w)
    \/ \E w \in Workers : WUpdate(w)
    \/ \E w \in Workers : WFin(w)

Spec == Init /\ [][Next]_vars

\* what the schedulers give: a thread that can take its next step takes it
\* (every step() returns or raises, a free lock is obtained, the GUI thread
\* finishes a started updateStatus) and the running QTimer fires when the GUI
\* thread is idle; nothing obliges the user to press a button
Fairness ==
    /\ \A w \in Workers :
          /\ WF_vars(WHead(w))
          /\ WF_vars(WAcquire(w))
          /\ WF_vars(WStep(w))
          /\ WF_vars(WUpdate(w))
          /\ WF_vars(WFin(w))
    /\ WF_vars(UpdateStatus)
    /\ WF_vars(MonAcquire)
    /\ WF_vars(MonCopy)

\* the runs with a fixed duration (terminationCondition.measurement is None)
FixedInit == Init /\ ~measurement

FairSpec == FixedInit /\ [][Next]_vars /\ Fairness


\* ---------------------------------------------------------------- claims

AliveSet == {w \in Workers : Alive(w)}
StartCall == calls' # calls /\ lastCall' = "start"
PauseCall == calls' # calls /\ lastCall' = "pause"
StopCall == calls' # calls /\ lastCall' = "stop"
HasLive == solverThread # NoThread /\ Alive(solverThread)

\* one logical run: Stop was never pressed and no worker completed or failed
RunIntact == ~stopPressed /\ \A w \in Workers : exitCause[w] \notin {"done", "failed"}

\* C1: within one logical run the progress values published by successive
\* updateStatus polls never decrease, also across pause and resume
C1_PollsNeverDecrease ==
    [][RunIntact' => (bar # NaN /\ bar' # NaN /\ bar' >= bar)]_vars

\* C2: solver.progress is within [0, 1] in every reachable state
C2_ProgressInUnitInterval == progress # NaN /\ progress >= 0 /\ progress <= One

\* C3: once the latest worker has exited on Done, solver.progress is exactly
\* 1.0, whatever updateProgress computed in the last iteration, and stays so
\* until a new worker is created
C3_DoneForcesOne ==
    \A w \in Workers :
        (pc[w] = "dead" /\ exitCause[w] = "done" /\ solverThread = w) => progress = One

\* a worker that exited on Done in an iteration that also ran updateProgress,
\* which published the Seeking value 0.15 * 5 / 1 = 0.75
C3_Witness ==
    \E w \in Workers :
        /\ pc[w] = "dead" /\ exitCause[w] = "done" /\ solverThread = w
        /\ measurement /\ iter[w] = Every /\ time = Every /\ stage[w] = 1
        /\ progress = One

\* C4: at most one worker is alive; start on a live worker changes nothing;
\* a worker is only created when no worker is alive
C4_SingleWorker ==
    [][/\ Cardinality(AliveSet') <= 1
       /\ (StartCall /\ HasLive) => UNCHANGED <<solverVars, workerVars, guiVars>>
       /\ nWorkers' # nWorkers => AliveSet = {}]_vars

\* start pressed while the worker is in step(): nothing changed
C4_Witness ==
    /\ lastCall = "start" /\ nWorkers = 1 /\ calls >= 2
    /\ pc[1] = "step" /\ ~stopFlag[1]

\* C5: a worker begins at most one step() after stop() set its flag, a worker
\* in step() holds the lock, and a terminated worker holds no lock
C5_StopWithinOneStep ==
    \A w \in Workers :
        /\ stepsAfterStop[w] <= 1
        /\ pc[w] = "step" => wlock[w] # NoThread
        /\ pc[w] = "dead" => wlock[w] = NoThread

\* a worker that was signalled between its loop test and its step(), ran that
\* one step and then exited on the flag
C5_Witness ==
    \E w \in Workers :
        stepsAfterStop[w] = 1 /\ pc[w] = "dead" /\ exitCause[w] = "stop"

\* C6: step() and updateStatus's copy of the series never run at the same
\* time, although every new worker installs a new lock object
C6_MutualExclusion ==
    ~(guiPc = "copy" /\ \E w \in Workers : pc[w] = "step")

\* after a resume: updateStatus blocked on the second lock object while the
\* second worker is in step()
C6_Witness ==
    /\ solverThread = 2 /\ solverLock = 2
    /\ pc[2] = "step" /\ wlock[2] = 2
    /\ guiPc = "wait"

\* C7: every worker write and every monitor read of a shared solver field
\* happens with the shared lock held by the acting thread
C7_AccessUnderLock == access.actor \in {"worker", "monitor"} => access.locked

\* C8: pause never creates a worker and never starts polling; with no live
\* worker it leaves solver, worker and polling state unchanged
C8_PauseOnlyPauses ==
    [][PauseCall =>
        /\ nWorkers' = nWorkers
        /\ timerActive' => timerActive
        /\ ~HasLive => UNCHANGED <<solverVars, workerVars, guiVars>>]_vars

\* C8 as amended: pause before any worker exists changes nothing; pause on a
\* live worker sets its stop flag and stops polling and creates no worker;
\* pause on a worker that is no longer alive creates a new worker on the same
\* solver and starts polling
C8_PauseToggles ==
    [][PauseCall =>
        /\ solverThread = NoThread => UNCHANGED <<solverVars, workerVars, guiVars>>
        /\ HasLive =>
              /\ nWorkers' = nWorkers /\ solverThread' = solverThread
              /\ stopFlag'[solverThread] /\ ~timerActive'
              /\ UNCHANGED <<solverVars, pc>>
        /\ (solverThread # NoThread /\ ~Alive(solverThread)) =>
              /\ nWorkers' = nWorkers + 1 /\ solverThread' = nWorkers'
              /\ pc'[solverThread'] = "head" /\ ~stopFlag'[solverThread']
              /\ timerActive'
              /\ solver' = solver]_vars

\* pause pressed on a worker that had exited: a second worker was created
C8_Witness ==
    /\ lastCall = "pause" /\ nWorkers = 2 /\ solverThread = 2
    /\ pc[1] = "dead" /\ pc[2] = "head" /\ iter[2] = 0 /\ timerActive

C10_StepErrorSurfaced ==
    \A w \in Workers :
        exitCause[w] = "failed" =>
            /\ pc[w] = "dead" /\ wlock[w] = NoThread
            /\ ~stopFlag[w]

\* C11: a worker only ever exists on a solver for which validate, setup,
\* construction and initialize all completed; a start that failed created no
\* worker and started no polling, and no later start creates a worker on the
\* solver the failed call left behind
C11_WorkerOnlyOnReadySolver ==
    /\ nWorkers > 0 => solver = "ready"
    /\ timerActive => solver = "ready"

\* the step is worker w's updateProgress call (made after iteration iter[w])
UpdateCall(w) == pc[w] = "upd" /\ pc'[w] = "fin" /\ iter[w] % Every = 0

\* C12: an updateProgress call in stage Converging never publishes an
\* undefined progress: the value it leaves is defined and not below the
\* previous one, and the worker goes on running
C12_ConvergingProgressDefined ==
    [][\A w \in Workers :
          (UpdateCall(w) /\ measurement /\ stage[w] = 1) =>
              /\ progress' # NaN
              /\ progress # NaN => progress' >= progress
              /\ Alive(w)']_vars

C14_StopTerminates ==
    \A w \in Workers : (stopFlag[w] /\ Alive(w)) ~> ~Alive(w)

\* a worker that exited on its flag after stop() was called on it more than once
C14_Witness ==
    /\ nWorkers = 1 /\ calls = MaxCalls /\ nValidate = 1 /\ stopPressed
    /\ lastCall = "stop" /\ pc[1] = "dead" /\ exitCause[1] = "stop"

\* the step is the timer's call of updateStatus on an existing solver
PollCall == guiPc = "idle" /\ guiPc' = "wait"

\* C15: the first updateStatus invocation that finds the worker no longer
\* alive stops the polling, and polling only becomes active again by a start
\* or a resuming pause: after the worker's termination at most one more
\* invocation occurs
C15_DeadWorkerStopsPolling ==
    [][/\ (PollCall /\ ~Alive(solverThread)) => ~timerActive'
       /\ (~timerActive /\ timerActive') => (StartCall \/ PauseCall)]_vars

\* updateStatus found a worker dead whose step() had failed with no stop()
\* or pause() on it (polling was still active) and stopped the polling
C15_Witness ==
    /\ solverThread # NoThread /\ exitCause[solverThread] = "failed"
    /\ ~stopFlag[solverThread]
    /\ guiPc = "wait" /\ ~timerActive /\ bar = progress

\* the step is made by worker w
WorkerStep(w) == Alive(w) /\ pc'[w] # pc[w]

\* C16: updateProgress is called exactly after the iterations whose 1-based
\* count is a multiple of 5, while the stop flag and Done are tested at the
\* head of every iteration; a worker in its first four iterations changes
\* solver.progress only by the forced write of 1.0 on Done
C16_UpdateEveryFifth ==
    [][\A w \in Workers :
          /\ (pc[w] = "upd" /\ pc'[w] = "fin") =>
                /\ iter[w] >= 1
                /\ (access'.actor = "worker" /\ access'.field = "progress")
                      <=> iter[w] % Every = 0
                /\ iter[w] % Every # 0 => UNCHANGED <<progress, stage, refCond>>
          /\ (pc[w] = "head" /\ WorkerStep(w)) =>
                IF stopFlag[w] \/ done[w]
                THEN pc'[w] = "dead"
                ELSE pc'[w] = "lock" /\ iter'[w] = iter[w] + 1
          /\ (WorkerStep(w) /\ iter[w] < Every /\ progress' # progress) =>
                (pc[w] = "fin" /\ done[w] /\ progress' = One)]_vars

\* a run that a second worker completed in fewer than five iterations of
\* its own, after a first worker had made more than five
C16_Witness ==
    /\ pc[2] = "dead" /\ exitCause[2] = "done"
    /\ iter[2] >= 1 /\ iter[2] < Every /\ progress = One
    /\ iter[1] > Every

\* C17: with a measurement configured, a worker's stage goes from Seeking to
\* Converging exactly in its first updateProgress call that sees an error
\* below 1e9; that call still publishes the Seeking value and captures the
\* error it saw as refCond; from then on the worker's stage stays Converging
\* and its refCond never changes
C17_StageTransition ==
    [][\A w \in Workers :
          /\ (UpdateCall(w) /\ measurement /\ stage[w] = 0) =>
                /\ progress' = RoundAway(Frac0 * time, SteadyPeriod)
                /\ IF err < Sentinel
                   THEN stage'[w] = 1 /\ refCond'[w] = err
                   ELSE stage'[w] = 0 /\ refCond'[w] = refCond[w]
          /\ stage'[w] # stage[w] =>
                (UpdateCall(w) /\ measurement /\ stage[w] = 0 /\ err < Sentinel)
          /\ stage[w] = 1 => (stage'[w] = 1 /\ refCond'[w] = refCond[w])]_vars

\* a worker that captured 100.0 as its reference error, has gone through a
\* later updateProgress call in stage Converging and has seen a lower error
C17_Witness ==
    \E w \in Workers :
        /\ measurement /\ stage[w] = 1 /\ refCond[w] = 100000
        /\ iter[w] > 2 * Every /\ err < refCond[w] /\ Alive(w)

\* C18: a worker created by a resume starts in stage Seeking with no
\* reference error, whatever stage the paused worker had reached
C18_ResumeStartsSeeking ==
    \A w \in Workers :
        (pc[w] = "head" /\ iter[w] = 0) => (stage[w] = 0 /\ refCond[w] = 0)

\* the Continue press that created the second worker, after the paused first
\* worker had reached stage Converging with reference error 100.0
C18_Witness ==
    /\ lastCall = "pause" /\ solverThread = 2 /\ pc[2] = "head" /\ iter[2] = 0
    /\ pc[1] = "dead" /\ exitCause[1] = "stop"
    /\ stage[1] = 1 /\ refCond[1] = 100000

\* the run has completed: some step() has reported Done
RunCompleted == \E w \in Workers : done[w]

\* the step is a start, or a pause pressed when the worker is not alive (a
\* resume), that returned without an error
StartReturned ==
    \/ StartCall /\ ~(solver = "none" /\ solver' # "ready")
    \/ PauseCall /\ solverThread # NoThread /\ ~Alive(solverThread)

\* C19: whenever start or a resuming pause returns without error on a run
\* that has not completed, there is a live worker whose stop flag is clear
\* and polling is active, also when the call comes right after a pause or
\* stop whose worker is still alive
C19_StartNeverLost ==
    [][(StartReturned /\ ~RunCompleted) =>
          /\ solverThread' # NoThread /\ Alive(solverThread)'
          /\ ~stopFlag'[solverThread']
          /\ timerActive']_vars

\* C20: under fair scheduling, when the current worker has exited on Done
\* while polling is active, updateStatus eventually publishes progress 1.0,
\* unless a pause or stop is pressed first
C20_FinalProgressPublished ==
    (solverThread # NoThread /\ exitCause[solverThread] = "done" /\ timerActive)
        ~> (bar = One \/ lastCall \in {"pause", "stop"})

====
